---- MODULE Spec2Model ----
(***************************************************************************)
(* Model of the three i18n maintenance scripts of storyarn:                *)
(*   scripts/gettext_split.py         (Domain Resolver, Call Rewriter)     *)
(*   scripts/migrate_translations.py  (Codec, Fill, Backfill Engine)       *)
(*   scripts/verify_translations.py   (Verifier)                           *)
(* Text is modelled at the character level: a Python str is a TLA+ string  *)
(* (a sequence of characters), so that the regular expressions,            *)
(* str.replace, startswith/endswith and slicing of the scripts operate on  *)
(* what they operate on in the code.                                       *)
(***************************************************************************)
EXTENDS Integers, Sequences, FiniteSets, TLC

VARIABLES
    cpc, cx, cy,         \* codec: position, input string, current string
    rRel,                \* rewriter: the file's path relative to lib/
    rOrig,               \* rewriter: the file's content before the first run
    rDisk,               \* rewriter: the file's content on disk
    rDomain,             \* rewriter: the label the last process_file resolved
    rRet,                \* rewriter: what the last process_file returned
    rRuns,               \* rewriter: number of process_file runs so far
    rWrites,             \* rewriter: number of writes to the file so far
    dPresent,            \* directory: default.po.bak exists
    dBackup,             \* directory: the text of default.po.bak
    dFiles,              \* directory: the texts of the .po files, in name order
    bDry,                \* backfill: --dry-run is given
    bOrig,               \* backfill: the files' texts before the first run
    bPrev,               \* backfill: their texts when the current run began
    bpc,                 \* backfill: where main is
    bTable,              \* backfill: translations
    bFile,               \* backfill: position of po_file in po_files
    bBlocks, bI,         \* fill_po_file: blocks, i (1-based)
    bFilled, bTotal,     \* fill_po_file: filled, total
    bParts,              \* fill_po_file: result_parts
    bPart, bResult,      \* fill_po_file: part and what _fill_block returned
    bCounts,             \* backfill: (filled, total) of each file, this run
    bReads,              \* backfill: the files read for filling, this run
    bWrites,             \* backfill: number of file writes so far
    bExit,               \* backfill: exit status of the last run
    bRuns,               \* backfill: number of runs of main so far
    vpc,                 \* verifier: where main is
    backup,              \* verifier: the table of default.po.bak
    vFile,               \* verifier: position of po_file in po_files
    all_translated,      \* verifier: key -> first non-empty value found
    all_present,         \* verifier: the keys found in any file
    per_file_stats,      \* verifier: (total, translated) of each file
    missing_from_any,    \* verifier: backup keys in no file
    lost_translations,   \* verifier: translated backup keys with no value now
    vExit                \* verifier: exit status

codecVars == <<cpc, cx, cy>>
rewriterVars == <<rRel, rOrig, rDisk, rDomain, rRet, rRuns, rWrites>>
fillVars == <<bBlocks, bI, bFilled, bTotal, bParts, bPart, bResult>>
directoryVars == <<dPresent, dBackup, dFiles>>
backfillVars ==
    <<bDry, bOrig, bPrev, bpc, bTable, bFile,
      fillVars, bCounts, bReads, bWrites, bExit, bRuns>>
verifierVars ==
    <<vpc, backup, vFile, all_translated, all_present, per_file_stats,
      missing_from_any, lost_translations, vExit>>
vars == <<codecVars, rewriterVars, directoryVars, backfillVars, verifierVars>>

\* The value a pipeline's variables hold in the specification of another.
CodecIdle == cpc = "idle" /\ cx = "" /\ cy = ""
RewriterIdle ==
    /\ rRel = "" /\ rOrig = "" /\ rDisk = ""
    /\ rDomain = "idle" /\ rRet = "idle" /\ rRuns = 0 /\ rWrites = 0
NoResult == [new_block |-> "", filled |-> 0, total |-> 0]
FillIdle ==
    /\ bBlocks = <<>> /\ bI = 1 /\ bFilled = 0 /\ bTotal = 0
    /\ bParts = <<>> /\ bPart = "" /\ bResult = NoResult
DirectoryIdle == dPresent = FALSE /\ dBackup = "" /\ dFiles = <<>>
BackfillIdle ==
    /\ bDry = FALSE /\ bOrig = <<>> /\ bPrev = <<>>
    /\ bpc = "idle" /\ bTable = <<>> /\ bFile = 1
    /\ FillIdle
    /\ bCounts = <<>> /\ bReads = {} /\ bWrites = 0 /\ bExit = 0 /\ bRuns = 0
VerifierIdle ==
    /\ vpc = "idle" /\ backup = <<>> /\ vFile = 1
    /\ all_translated = <<>> /\ all_present = {} /\ per_file_stats = <<>>
    /\ missing_from_any = {} /\ lost_translations = {} /\ vExit = 0

----------------------------------------------------------------------------
(* Characters *)
NL == "\n"
QT == "\""
BS == "\\"
SP == " "

----------------------------------------------------------------------------
(* Python str helpers *)

\* s[i-1] (the i-th character, as a one-character string)
Char(s, i) == SubSeq(s, i, i)

Head1(s) == SubSeq(s, 1, 1)

\* s.startswith(p)
StartsWith(s, p) == Len(p) <= Len(s) /\ SubSeq(s, 1, Len(p)) = p

\* s.endswith(p)
EndsWith(s, p) == Len(p) <= Len(s) /\ SubSeq(s, Len(s) - Len(p) + 1, Len(s)) = p

\* s[k:]  (0-based k, as in Python)
From(s, k) == SubSeq(s, k + 1, Len(s))

\* s.replace(old, new): left to right, non-overlapping occurrences
RECURSIVE Replace(_, _, _)
Replace(s, old, new) ==
    IF Len(s) < Len(old) THEN s
    ELSE IF SubSeq(s, 1, Len(old)) = old
         THEN new \o Replace(From(s, Len(old)), old, new)
         ELSE Head1(s) \o Replace(Tail(s), old, new)

\* The strings made of at most n pieces of the set alphabet
RECURSIVE StringsUpTo(_, _)
StringsUpTo(alphabet, n) ==
    IF n = 0 THEN {""}
    ELSE LET shorter == StringsUpTo(alphabet, n - 1)
         IN  shorter \cup {s \o c : s \in shorter, c \in alphabet}

----------------------------------------------------------------------------
(* Translation-Entry Codec: escaping *)

_unescape(s) ==
    Replace(Replace(Replace(s, BS \o "n", NL), BS \o QT, QT), BS \o BS, BS)

_escape(s) ==
    Replace(Replace(Replace(s, BS, BS \o BS), QT, BS \o QT), NL, BS \o "n")


----------------------------------------------------------------------------
(* Domain Resolver (gettext_split.py) *)

DOMAIN_RULES == <<
    <<"storyarn_web/live/flow_live/", "flows">>,
    <<"storyarn_web/components/condition_builder.ex", "flows">>,
    <<"storyarn_web/components/instruction_builder.ex", "flows">>,
    <<"storyarn_web/components/sidebar/flow_tree.ex", "flows">>,
    <<"storyarn_web/live/map_live/", "maps">>,
    <<"storyarn_web/components/sidebar/map_tree.ex", "maps">>,
    <<"storyarn_web/live/sheet_live/", "sheets">>,
    <<"storyarn_web/components/block_components.ex", "sheets">>,
    <<"storyarn_web/components/block_components/", "sheets">>,
    <<"storyarn_web/components/audio_picker.ex", "sheets">>,
    <<"storyarn_web/components/sidebar/sheet_tree.ex", "sheets">>,
    <<"storyarn/sheets/versioning.ex", "sheets">>,
    <<"storyarn_web/live/localization_live/", "localization">>,
    <<"storyarn_web/live/project_live/", "projects">>,
    <<"storyarn_web/live/workspace_live/", "workspaces">>,
    <<"storyarn_web/live/settings_live/workspace_members.ex", "workspaces">>,
    <<"storyarn_web/live/settings_live/workspace_general.ex", "workspaces">>,
    <<"storyarn_web/live/screenplay_live/", "screenplays">>,
    <<"storyarn_web/controllers/screenplay_export_controller.ex", "screenplays">>,
    <<"storyarn_web/components/sidebar/screenplay_tree.ex", "screenplays">>,
    <<"storyarn_web/live/user_live/", "identity">>,
    <<"storyarn_web/controllers/user_session_controller.ex", "identity">>,
    <<"storyarn_web/controllers/oauth_controller.ex", "identity">>,
    <<"storyarn_web/user_auth.ex", "identity">>,
    <<"storyarn/accounts/registration.ex", "identity">>,
    <<"storyarn_web/live/settings_live/profile.ex", "settings">>,
    <<"storyarn_web/live/settings_live/security.ex", "settings">>,
    <<"storyarn_web/live/settings_live/connections.ex", "settings">>,
    <<"storyarn_web/live/asset_live/", "assets">>,
    <<"storyarn_web/live/components/asset_upload.ex", "assets">>,
    <<"storyarn_web/components/layouts.ex", "default">>,
    <<"storyarn_web/components/core_components.ex", "default">>,
    <<"storyarn_web/components/project_sidebar.ex", "default">>,
    <<"storyarn_web/components/sidebar.ex", "default">>,
    <<"storyarn_web/components/collaboration_components.ex", "default">>,
    <<"storyarn_web/components/member_components.ex", "default">>,
    <<"storyarn_web/components/save_indicator.ex", "default">>,
    <<"storyarn_web/components/ui_components.ex", "default">>,
    <<"storyarn_web/helpers/authorize.ex", "default">>
>>

SKIP_FILES == {"storyarn_web/helpers/authorize.ex"}

\* Python's None, as get_domain returns it; no rule's label is this string.
None == "<None>"

\* (a variant of get_domain that never tries the first rule)
get_domain_SkipsFirstRule(rel_path) ==
    LET RECURSIVE from(_)
        from(k) ==
            IF k > Len(DOMAIN_RULES) THEN None
            ELSE IF StartsWith(rel_path, DOMAIN_RULES[k][1]) THEN DOMAIN_RULES[k][2]
                 ELSE from(k + 1)
    IN  from(2)

RECURSIVE get_domain_from(_, _)
get_domain_from(k, rel_path) ==
    IF k > Len(DOMAIN_RULES) THEN None
    ELSE IF StartsWith(rel_path, DOMAIN_RULES[k][1]) THEN DOMAIN_RULES[k][2]
         ELSE get_domain_from(k + 1, rel_path)

get_domain(rel_path) == get_domain_from(1, rel_path)

----------------------------------------------------------------------------
(* Call Rewriter: the four patterns.  Each operator gives the length of the *)
(* pattern's match starting at position i of s (1-based), or 0 for none;    *)
(* no pattern matches the empty string.                                     *)

WordChars ==
    {"a", "b", "c", "d", "e", "f", "g", "h", "i", "j", "k", "l", "m",
     "n", "o", "p", "q", "r", "s", "t", "u", "v", "w", "x", "y", "z",
     "A", "B", "C", "D", "E", "F", "G", "H", "I", "J", "K", "L", "M",
     "N", "O", "P", "Q", "R", "S", "T", "U", "V", "W", "X", "Y", "Z",
     "0", "1", "2", "3", "4", "5", "6", "7", "8", "9", "_"}
SpaceChars == {" ", "\t", "\n", "\r", "\f"}

\* \w and \s
IsWord(c) == c \in WordChars
IsSpace(c) == c \in SpaceChars

\* the literal lit stands at position i of s
MatchLit(s, i, lit) ==
    i + Len(lit) - 1 <= Len(s) /\ SubSeq(s, i, i + Len(lit) - 1) = lit

\* \b at position i: exactly one of s[i-1], s[i] is a word character
WordBoundary(s, i) ==
    (i > 1 /\ IsWord(Char(s, i - 1))) # (i <= Len(s) /\ IsWord(Char(s, i)))

\* (?<![d\w]) at position i
NotAfterWord(s, i) == i = 1 \/ ~(Char(s, i - 1) = "d" \/ IsWord(Char(s, i - 1)))

\* \s* from position i: the position of the first character it leaves
RECURSIVE SkipSpaces(_, _)
SkipSpaces(s, i) ==
    IF i <= Len(s) /\ IsSpace(Char(s, i)) THEN SkipSpaces(s, i + 1) ELSE i

\* (variants of the bare patterns without the lookbehind)
RE_GETTEXT_NoLookbehind(s, i) ==
    IF MatchLit(s, i, "gettext(") THEN Len("gettext(") ELSE 0

RE_NGETTEXT_NoLookbehind(s, i) ==
    IF MatchLit(s, i, "ngettext(") THEN Len("ngettext(") ELSE 0

RE_GETTEXT(s, i) ==
    IF MatchLit(s, i, "gettext(") /\ NotAfterWord(s, i) THEN Len("gettext(") ELSE 0

RE_NGETTEXT(s, i) ==
    IF MatchLit(s, i, "ngettext(") /\ NotAfterWord(s, i) THEN Len("ngettext(") ELSE 0

\* \b<call>\s*StoryarnWeb\.Gettext,\s*
ModMatch(s, i, call) ==
    LET k == SkipSpaces(s, i + Len(call))
        e == SkipSpaces(s, k + Len("StoryarnWeb.Gettext,"))
    IN  IF /\ MatchLit(s, i, call)
           /\ WordBoundary(s, i)
           /\ MatchLit(s, k, "StoryarnWeb.Gettext,")
        THEN e - i ELSE 0

RE_MOD_GETTEXT(s, i) == ModMatch(s, i, "Gettext.gettext(")

RE_MOD_NGETTEXT(s, i) == ModMatch(s, i, "Gettext.ngettext(")

\* The four forms, their patterns and their replacements
Forms == {"A", "B", "C", "D"}

MatchLen(form, s, i) ==
    CASE form = "A" -> RE_GETTEXT(s, i)
      [] form = "B" -> RE_NGETTEXT(s, i)
      [] form = "C" -> RE_MOD_GETTEXT(s, i)
      [] form = "D" -> RE_MOD_NGETTEXT(s, i)

Replacement(form, domain) ==
    CASE form = "A" -> "dgettext(\"" \o domain \o "\", "
      [] form = "B" -> "dngettext(\"" \o domain \o "\", "
      [] form = "C" -> "Gettext.dgettext(StoryarnWeb.Gettext, \"" \o domain \o "\", "
      [] form = "D" -> "Gettext.dngettext(StoryarnWeb.Gettext, \"" \o domain \o "\", "

\* pattern.sub(repl, s): the non-overlapping matches, leftmost first, from i
RECURSIVE SubFrom(_, _, _, _)
SubFrom(form, repl, s, i) ==
    IF i > Len(s) THEN ""
    ELSE LET n == MatchLen(form, s, i)
         IN  IF n > 0 THEN repl \o SubFrom(form, repl, s, i + n)
             ELSE Char(s, i) \o SubFrom(form, repl, s, i + 1)

Sub(form, content, domain) == SubFrom(form, Replacement(form, domain), content, 1)

transform_content(content, domain) ==
    Sub("B", Sub("A", Sub("D", Sub("C", content, domain), domain), domain), domain)

\* (a variant of process_file that rewrites the files of the default domain)
process_file_NoDefaultCheck(rel, original, dry_run) ==
    LET rel_norm == Replace(rel, BS, "/")
        skipped == \E skip \in SKIP_FILES : EndsWith(rel_norm, skip) \/ rel_norm = skip
        domain == get_domain(rel_norm)
        transformed == transform_content(original, domain)
        untouched(resolved) ==
            [ret |-> FALSE, write |-> FALSE, content |-> original,
             domain |-> resolved]
    IN  IF skipped THEN untouched("skipped")
        ELSE IF domain = None THEN untouched(domain)
        ELSE IF transformed = original THEN untouched(domain)
        ELSE [ret |-> TRUE, write |-> ~dry_run,
              content |-> IF dry_run THEN original ELSE transformed,
              domain |-> domain]

\* process_file: what it returns, whether it writes, and what it writes
process_file(rel, original, dry_run) ==
    LET rel_norm == Replace(rel, BS, "/")
        skipped == \E skip \in SKIP_FILES : EndsWith(rel_norm, skip) \/ rel_norm = skip
        domain == get_domain(rel_norm)
        transformed == transform_content(original, domain)
        untouched(resolved) ==
            [ret |-> FALSE, write |-> FALSE, content |-> original,
             domain |-> resolved]
    IN  IF skipped THEN untouched("skipped")
        ELSE IF domain = None \/ domain = "default" THEN untouched(domain)
        ELSE IF transformed = original THEN untouched(domain)
        ELSE [ret |-> TRUE, write |-> ~dry_run,
              content |-> IF dry_run THEN original ELSE transformed,
              domain |-> domain]

----------------------------------------------------------------------------
(* Specification of the rewriter: process_file runs on one file, possibly   *)
(* several times, each run a dry run or not.                                *)

MaxRuns == 2
MaxFrags == 3

RulePrefixes == {DOMAIN_RULES[k][1] : k \in 1..Len(DOMAIN_RULES)}

\* Paths relative to lib/: every rule's prefix, a file under it, and paths
\* that no rule matches, that end with a skipped file, or that use "\".
Paths ==
    RulePrefixes
    \cup {p \o "index.ex" : p \in RulePrefixes}
    \cup {"storyarn/repo.ex",
          "storyarn_web/live/flow_live",
          "storyarn_web/components/sidebar/index.ex",
          "storyarn_web\\live\\map_live\\show.ex",
          "storyarn_web\\helpers\\authorize.ex",
          "vendor/storyarn_web/helpers/authorize.ex",
          "storyarn_web/live/flow_live/storyarn_web/helpers/authorize.ex"}

FewPaths == {"storyarn_web/live/flow_live/index.ex"}

\* File contents: up to MaxFrags of these pieces of source text in a row.
Frags ==
    {"gettext(", "ngettext(", "d", "Gettext.", "StoryarnWeb.Gettext,", NL}
Contents == StringsUpTo(Frags, MaxFrags)

FewContents ==
    {"x",
     "gettext(\"a\")",
     "Gettext.gettext(StoryarnWeb.Gettext, \"a\")",
     "Gettext.ngettext(StoryarnWeb.Gettext," \o NL \o "  \"a\", \"b\", 2)"}

RewriterInit ==
    /\ \/ rRel \in Paths /\ rOrig \in FewContents
       \/ rRel \in FewPaths /\ rOrig \in Contents
    /\ rDisk = rOrig
    /\ rDomain = "none yet" /\ rRet = "none yet"
    /\ rRuns = 0 /\ rWrites = 0
    /\ CodecIdle
    /\ DirectoryIdle /\ BackfillIdle /\ VerifierIdle

ProcessFile(dry_run) ==
    /\ rRuns < MaxRuns
    /\ \E r \in {process_file(rRel, rDisk, dry_run)} :
           /\ rDisk' = r.content
           /\ rRet' = r.ret
           /\ rDomain' = r.domain
           /\ rWrites' = IF r.write THEN rWrites + 1 ELSE rWrites
    /\ rRuns' = rRuns + 1
    /\ UNCHANGED <<rRel, rOrig, codecVars, directoryVars, backfillVars, verifierVars>>

RewriterNext == \E dry_run \in BOOLEAN : ProcessFile(dry_run)

SpecRewriter == RewriterInit /\ [][RewriterNext]_vars

(* Claims about the rewriter *)

FeatureLabels ==
    {DOMAIN_RULES[k][2] : k \in 1..Len(DOMAIN_RULES)} \ {"default"}

\* The path as process_file matches it, and whether the skip list holds it
RelNorm == Replace(rRel, BS, "/")
InSkipSet == \E skip \in SKIP_FILES : EndsWith(RelNorm, skip)

\* The rules whose prefix is a string prefix of path, by position
MatchingRules(path) ==
    {k \in 1..Len(DOMAIN_RULES) : StartsWith(path, DOMAIN_RULES[k][1])}

FirstMatchLabel(path) ==
    LET matching == MatchingRules(path)
    IN  IF matching = {} THEN None
        ELSE DOMAIN_RULES[CHOOSE k \in matching : \A j \in matching : k <= j][2]

\* C3: a file that a run has rewritten is left as it is by every later run,
\* which reports it as not modified: transform_content is idempotent.
C3_RewriteIdempotent ==
    [][(rWrites >= 1 /\ rRuns' = rRuns + 1)
         => (rRet' = FALSE /\ rDisk' = rDisk /\ rWrites' = rWrites)]_vars

C3_Witness ==
    /\ rRuns = 2 /\ rWrites = 1 /\ rRet = FALSE
    /\ rOrig = "Gettext.gettext(StoryarnWeb.Gettext,"
    /\ rDisk = "Gettext.dgettext(StoryarnWeb.Gettext, \"flows\", "

\* The substitutions of the forms of order, applied one after the other
RECURSIVE ApplyOrder(_, _, _)
ApplyOrder(order, content, domain) ==
    IF order = <<>> THEN content
    ELSE ApplyOrder(Tail(order), Sub(Head(order), content, domain), domain)

Position(order, form) == CHOOSE k \in 1..Len(order) : order[k] = form

AllOrders == {o \in [1..4 -> Forms] : \A f \in Forms : \E k \in 1..4 : o[k] = f}

QualifiedFirstOrders ==
    {o \in AllOrders : /\ Position(o, "C") < Position(o, "A")
                       /\ Position(o, "D") < Position(o, "B")}

\* C4 as stated: the four substitutions give transform_content's output in
\* whatever order they are applied.
C4_AnyOrder ==
    (rRuns = 1 /\ rDomain \in FeatureLabels) =>
        LET transformed == transform_content(rOrig, rDomain)
        IN  \A o \in AllOrders : ApplyOrder(o, rOrig, rDomain) = transformed

\* C4 amended: every order that applies Form C before Form A and Form D
\* before Form B gives transform_content's output.
C4_QualifiedFirst ==
    (rRuns = 1 /\ rDomain \in FeatureLabels) =>
        LET transformed == transform_content(rOrig, rDomain)
        IN  \A o \in QualifiedFirstOrders :
                ApplyOrder(o, rOrig, rDomain) = transformed

C4_Witness ==
    /\ rDomain \in FeatureLabels
    /\ rWrites = 1
    /\ rRuns = 1
    /\ rOrig = "Gettext.gettext(StoryarnWeb.Gettext,"
    /\ rDisk = ApplyOrder(<<"D", "C", "B", "A">>, rOrig, rDomain)
    /\ rDisk # ApplyOrder(<<"A", "C", "D", "B">>, rOrig, rDomain)

\* C7: get_domain gives the label of the first rule, in declaration order,
\* whose prefix is a string prefix of the path, and None when there is none;
\* and a path equal to a rule's prefix resolves to that rule's label.
C7_FirstMatchWins ==
    (rRuns > 0 /\ rDomain # "skipped") =>
        LET path == RelNorm
        IN  /\ rDomain = FirstMatchLabel(path)
            /\ \A k \in 1..Len(DOMAIN_RULES) :
                   path = DOMAIN_RULES[k][1] => rDomain = DOMAIN_RULES[k][2]

C7_Witness ==
    /\ rRuns > 0
    /\ rRel = "storyarn_web/components/block_components/index.ex"
    /\ rDomain = "sheets"

\* C8: a file whose path is in the skip set, or whose label is None or
\* "default", is never written and every run on it returns False.
C8_Untouched ==
    (rRuns > 0 /\ (InSkipSet \/ get_domain(RelNorm) \in {None, "default"})) =>
        /\ rRet = FALSE
        /\ rWrites = 0
        /\ rDisk = rOrig

C8_Witness ==
    /\ rRuns = 2
    /\ rRel = "storyarn_web/live/flow_live/storyarn_web/helpers/authorize.ex"
    /\ rOrig = "gettext(\"a\")"
    /\ rRet = FALSE


----------------------------------------------------------------------------
(* Translation-Entry Codec: the regular expressions and str methods of      *)
(* migrate_translations.py, on PO text                                      *)

\* sub in s
Contains(s, sub) == \E i \in 1..Len(s) : MatchLit(s, i, sub)

\* ^ under re.MULTILINE: the start of the text or just after a newline
AtLineStart(s, i) == i = 1 \/ Char(s, i - 1) = NL

\* $ under re.MULTILINE: the end of the text or just before a newline
AtLineEnd(s, i) == i > Len(s) \/ Char(s, i) = NL

\* s.strip()
RECURSIVE LStrip(_)
LStrip(s) == IF s # "" /\ IsSpace(Head1(s)) THEN LStrip(Tail(s)) ELSE s
RECURSIVE RStrip(_)
RStrip(s) ==
    IF s # "" /\ IsSpace(Char(s, Len(s))) THEN RStrip(SubSeq(s, 1, Len(s) - 1))
    ELSE s
Strip(s) == RStrip(LStrip(s))

\* the position of the first character c of s at or after i; 0 if none
RECURSIVE IndexFrom(_, _, _)
IndexFrom(s, c, i) ==
    IF i > Len(s) THEN 0
    ELSE IF Char(s, i) = c THEN i ELSE IndexFrom(s, c, i + 1)

\* the position after the run of newlines that starts at i
RECURSIVE SkipNewlines(_, _)
SkipNewlines(s, i) ==
    IF i <= Len(s) /\ Char(s, i) = NL THEN SkipNewlines(s, i + 1) ELSE i

\* the position of the first match of \n\n+ at or after i; 0 if none
RECURSIVE BlankFrom(_, _)
BlankFrom(s, i) ==
    IF i + 1 > Len(s) THEN 0
    ELSE IF Char(s, i) = NL /\ Char(s, i + 1) = NL THEN i
         ELSE BlankFrom(s, i + 1)

\* re.split(r'(\n\n+)', s): text, separator, text, separator, ..., text
RECURSIVE SplitKeep(_)
SplitKeep(s) ==
    LET b == BlankFrom(s, 1)
        e == SkipNewlines(s, b)
    IN  IF b = 0 THEN <<s>>
        ELSE <<SubSeq(s, 1, b - 1), SubSeq(s, b, e - 1)>> \o SplitKeep(From(s, e - 1))

\* re.split(r'\n\n+', s): the texts alone
RECURSIVE SplitBlocks(_)
SplitBlocks(s) ==
    LET b == BlankFrom(s, 1)
        e == SkipNewlines(s, b)
    IN  IF b = 0 THEN <<s>>
        ELSE <<SubSeq(s, 1, b - 1)>> \o SplitBlocks(From(s, e - 1))

\* s.splitlines(), for text whose only line break is "\n"
RECURSIVE splitlines(_)
splitlines(s) ==
    LET n == IndexFrom(s, NL, 1)
    IN  IF s = "" THEN <<>>
        ELSE IF n = 0 THEN <<s>>
        ELSE <<SubSeq(s, 1, n - 1)>> \o splitlines(From(s, n))

\* "".join(parts)
RECURSIVE Join(_)
Join(parts) == IF parts = <<>> THEN "" ELSE Head(parts) \o Join(Tail(parts))

\* (?:[^"\\]|\\.)*" from position i: the position of the closing quote, or
\* 0 when the text from i is no such string (a backslash before a newline
\* or at the end, or no closing quote)
RECURSIVE StringEnd(_, _)
StringEnd(s, i) ==
    IF i > Len(s) THEN 0
    ELSE IF Char(s, i) = QT THEN i
    ELSE IF Char(s, i) = BS
         THEN IF i + 1 <= Len(s) /\ Char(s, i + 1) # NL
              THEN StringEnd(s, i + 2) ELSE 0
    ELSE StringEnd(s, i + 1)

\* re.search(r'^<keyword>\s+"((?:[^"\\]|\\.)*)"', block, re.MULTILINE) from
\* position i: <<group 1>> of the first match, <<>> when there is none
RECURSIVE SearchKeyword(_, _, _)
SearchKeyword(block, keyword, i) ==
    LET q == SkipSpaces(block, i + Len(keyword))
        e == StringEnd(block, q + 1)
    IN  IF i > Len(block) THEN <<>>
        ELSE IF /\ MatchLit(block, i, keyword)
                /\ AtLineStart(block, i)
                /\ q > i + Len(keyword)
                /\ q <= Len(block) /\ Char(block, q) = QT
                /\ e > 0
             THEN <<SubSeq(block, q + 1, e - 1)>>
             ELSE SearchKeyword(block, keyword, i + 1)

\* ^<line>$ under re.MULTILINE matches at position i
LineAt(block, line, i) ==
    /\ MatchLit(block, i, line)
    /\ AtLineStart(block, i)
    /\ AtLineEnd(block, i + Len(line))

\* re.search(r'^<line>$', block, re.MULTILINE)
HasLine(block, line) == \E i \in 1..Len(block) : LineAt(block, line, i)

\* re.sub(r'^<line>$', <text>, block, flags=re.MULTILINE), text being the
\* replacement after re has expanded its template
RECURSIVE SubLine(_, _, _, _)
SubLine(block, line, text, i) ==
    IF i > Len(block) THEN ""
    ELSE IF LineAt(block, line, i)
         THEN text \o SubLine(block, line, text, i + Len(line))
         ELSE Char(block, i) \o SubLine(block, line, text, i + 1)

\* What re.sub makes of the backslashes of a replacement template: \\ is a
\* backslash, \n a newline, and a backslash before a character that is no
\* letter or digit stays (_escape leaves no other backslash in its output)
RECURSIVE ExpandTemplate(_)
ExpandTemplate(t) ==
    IF t = "" THEN ""
    ELSE IF Head1(t) = BS /\ Len(t) >= 2
         THEN (CASE Char(t, 2) = BS -> BS
                 [] Char(t, 2) = "n" -> NL
                 [] OTHER -> SubSeq(t, 1, 2))
              \o ExpandTemplate(From(t, 2))
    ELSE Head1(t) \o ExpandTemplate(Tail(t))

----------------------------------------------------------------------------
(* Translation tables: a function from keys to translations.  The key of a  *)
(* simple entry is <<msgid>>, of a plural entry <<msgid, msgid_plural>>.    *)

EmptyTable == [k \in {} |-> ""]

\* translations.get(key, "")
Get(translations, key) ==
    IF key \in DOMAIN translations THEN translations[key] ELSE ""

\* translations[key] = value
Put(translations, key, value) ==
    [k \in DOMAIN translations \cup {key} |->
        IF k = key THEN value ELSE translations[k]]

----------------------------------------------------------------------------
(* Parse.  A value that Python leaves None is <<>> here, and a value v that *)
(* it sets is <<v>>.                                                        *)

\* the position after the continuation lines that follow line i
RECURSIVE _skip_string_from(_, _)
_skip_string_from(lines, j) ==
    IF j <= Len(lines) /\ StartsWith(lines[j], QT)
    THEN _skip_string_from(lines, j + 1) ELSE j

_skip_string(lines, i) == _skip_string_from(lines, i + 1)

\* lines[j][1:-1] of the continuation lines j = from .. to - 1, in a row
RECURSIVE Continuations(_, _, _)
Continuations(lines, from, to) ==
    IF from >= to THEN ""
    ELSE SubSeq(lines[from], 2, Len(lines[from]) - 1)
         \o Continuations(lines, from + 1, to)

\* (every keyword line of the inputs holds a quote, so line.index('"') is
\* defined)
_read_string(lines, i) ==
    LET line == lines[i]
        first_quote == IndexFrom(line, QT, 1)
        val == SubSeq(line, first_quote + 1, Len(line) - 1)
    IN  _unescape(val \o Continuations(lines, i + 1, _skip_string(lines, i)))

Digits == {"0", "1", "2", "3", "4", "5", "6", "7", "8", "9"}

\* \d+ from position i: the position of the first character it leaves
RECURSIVE SkipDigits(_, _)
SkipDigits(s, i) ==
    IF i <= Len(s) /\ Char(s, i) \in Digits THEN SkipDigits(s, i + 1) ELSE i

\* the position of the last character c of s before position i; 0 if none
RECURSIVE LastIndexBefore(_, _, _)
LastIndexBefore(s, c, i) ==
    IF i <= 1 THEN 0
    ELSE IF Char(s, i - 1) = c THEN i - 1 ELSE LastIndexBefore(s, c, i - 1)

\* int(digits) = 0
RECURSIVE IsZero(_)
IsZero(digits) == digits = "" \/ (Head1(digits) = "0" /\ IsZero(Tail(digits)))

\* re.match(r'msgstr\[(\d+)\]\s+"(.*)"', line): <<>> when there is no match,
\* and <<group 1, group 2>> when there is one
MatchPluralValue(line) ==
    LET d == Len("msgstr[") + 1
        b == SkipDigits(line, d)
        q == SkipSpaces(line, b + 1)
        last == LastIndexBefore(line, QT, Len(line) + 1)
    IN  IF /\ StartsWith(line, "msgstr[")
           /\ b > d
           /\ b <= Len(line) /\ Char(line, b) = "]"
           /\ q > b + 1
           /\ q <= Len(line) /\ Char(line, q) = QT
           /\ last > q
        THEN <<SubSeq(line, d, b - 1), SubSeq(line, q + 1, last - 1)>>
        ELSE <<>>

NoEntry == [msgid |-> <<>>, msgid_plural |-> <<>>, msgstr |-> <<>>, msgstr0 |-> <<>>]

\* the while loop over the lines of a block, from line i on
RECURSIVE ParseLines(_, _, _)
ParseLines(lines, i, entry) ==
    IF i > Len(lines) THEN entry
    ELSE IF StartsWith(lines[i], "msgid ")
    THEN ParseLines(lines, _skip_string(lines, i),
                    [entry EXCEPT !.msgid = <<_read_string(lines, i)>>])
    ELSE IF StartsWith(lines[i], "msgid_plural ")
    THEN ParseLines(lines, _skip_string(lines, i),
                    [entry EXCEPT !.msgid_plural = <<_read_string(lines, i)>>])
    ELSE IF StartsWith(lines[i], "msgstr \"")
    THEN ParseLines(lines, _skip_string(lines, i),
                    [entry EXCEPT !.msgstr = <<_read_string(lines, i)>>])
    ELSE IF MatchPluralValue(lines[i]) # <<>>
    THEN LET m == MatchPluralValue(lines[i])
             j == _skip_string(lines, i)
             val == _unescape(m[2] \o Continuations(lines, i + 1, j))
         IN  ParseLines(lines, j,
                        IF IsZero(m[1]) THEN [entry EXCEPT !.msgstr0 = <<val>>]
                        ELSE entry)
    ELSE ParseLines(lines, i + 1, entry)

\* what the loop leaves of one block
ParseBlock(block) == ParseLines(splitlines(Strip(block)), 1, NoEntry)

\* the table after the blocks from the k-th on
RECURSIVE ParseBlocks(_, _, _)
ParseBlocks(blocks, k, translations) ==
    IF k > Len(blocks) THEN translations
    ELSE LET e == ParseBlock(blocks[k])
         IN  ParseBlocks(blocks, k + 1,
                 IF e.msgid = <<>> \/ e.msgid = <<"">> THEN translations
                 ELSE IF e.msgid_plural # <<>>
                 THEN Put(translations, <<e.msgid[1], e.msgid_plural[1]>>,
                          IF e.msgstr0 = <<>> THEN "" ELSE e.msgstr0[1])
                 ELSE IF e.msgstr # <<>>
                 THEN Put(translations, <<e.msgid[1]>>, e.msgstr[1])
                 ELSE translations)

\* parse_po of migrate_translations.py, on the text of the file
parse_po(content) == ParseBlocks(SplitBlocks(Strip(content)), 1, EmptyTable)

\* parse_po_entries of verify_translations.py: the same statements
parse_po_entries(content) == ParseBlocks(SplitBlocks(Strip(content)), 1, EmptyTable)

----------------------------------------------------------------------------
(* Fill *)

_fill_block(block, translations) ==
    LET msgid_m == SearchKeyword(block, "msgid", 1)
        msgid == _unescape(msgid_m[1])
        msgid_plural_m == SearchKeyword(block, "msgid_plural", 1)
        msgid_plural == _unescape(msgid_plural_m[1])
        plural_translation == Get(translations, <<msgid, msgid_plural>>)
        translation == Get(translations, <<msgid>>)
        unchanged(total) == [new_block |-> block, filled |-> 0, total |-> total]
    IN  IF Strip(block) = "" \/ ~Contains(block, "msgid") THEN unchanged(0)
        ELSE IF msgid_m = <<>> THEN unchanged(0)
        ELSE IF msgid = "" THEN unchanged(0)
        ELSE IF msgid_plural_m # <<>>
        THEN IF HasLine(block, "msgstr[0] \"\"") /\ plural_translation # ""
             THEN [new_block |->
                       SubLine(block, "msgstr[0] \"\"",
                               "msgstr[0] " \o QT
                                   \o ExpandTemplate(_escape(plural_translation))
                                   \o QT, 1),
                   filled |-> 1, total |-> 1]
             ELSE unchanged(1)
        ELSE IF HasLine(block, "msgstr \"\"") /\ translation # ""
             THEN [new_block |->
                       SubLine(block, "msgstr \"\"",
                               "msgstr " \o QT
                                   \o ExpandTemplate(_escape(translation))
                                   \o QT, 1),
                   filled |-> 1, total |-> 1]
             ELSE unchanged(1)

----------------------------------------------------------------------------
(* Specification of the codec alone: a string is escaped and unescaped, in  *)
(* either order.                                                            *)

MaxLen == 3
CodecAlphabet == {BS, QT, NL, "n", "a"}
CodecStrings == StringsUpTo(CodecAlphabet, MaxLen)

CodecInit ==
    /\ cx \in CodecStrings
    /\ cy = cx
    /\ cpc = "start"
    /\ RewriterIdle
    /\ DirectoryIdle /\ BackfillIdle /\ VerifierIdle

CodecEscape ==
    /\ cpc \in {"start", "unescaped"}
    /\ cy' = _escape(cy)
    /\ cpc' = IF cpc = "start" THEN "escaped" ELSE "unesc_esc"
    /\ UNCHANGED <<cx, rewriterVars, directoryVars, backfillVars, verifierVars>>

CodecUnescape ==
    /\ cpc \in {"start", "escaped"}
    /\ cy' = _unescape(cy)
    /\ cpc' = IF cpc = "start" THEN "unescaped" ELSE "esc_unesc"
    /\ UNCHANGED <<cx, rewriterVars, directoryVars, backfillVars, verifierVars>>

CodecNext == CodecEscape \/ CodecUnescape

SpecCodec == CodecInit /\ [][CodecNext]_vars

\* C2: _escape and _unescape are mutual inverses: unescaping an escaped
\* string, and escaping an unescaped string, both give the string back.
C2_RoundTrip ==
    /\ cpc = "esc_unesc" => cy = cx
    /\ cpc = "unesc_esc" => cy = cx

----------------------------------------------------------------------------
(* Specification of the backfill: main of migrate_translations.py runs on   *)
(* a locale directory, possibly several times.                              *)

MaxPasses == 2
MaxBlocks == 2

\* The blocks of the target files: a header, entries with an empty and with
\* a filled value, entries whose value or key continues on the next line,
\* a plural entry, and a plural entry followed at once by a simple one.
Header == "msgid \"\"" \o NL \o "msgstr \"\"" \o NL \o "\"c\""
SimpleEmpty == "msgid \"a\"" \o NL \o "msgstr \"\""
SimpleFilled == "msgid \"a\"" \o NL \o "msgstr \"v\""
SimpleContinued == "msgid \"a\"" \o NL \o "msgstr \"\"" \o NL \o "\"v\""
KeyContinued == "msgid \"\"" \o NL \o "\"a\"" \o NL \o "msgstr \"\""
PluralEmpty ==
    "msgid \"a\"" \o NL \o "msgid_plural \"p\"" \o NL
        \o "msgstr[0] \"\"" \o NL \o "msgstr[1] \"\""
PluralThenSimple ==
    "msgid \"a\"" \o NL \o "msgid_plural \"p\"" \o NL \o "msgstr[0] \"\"" \o NL
        \o "msgid \"a\"" \o NL \o "msgstr \"\""

EntryBlocks ==
    {Header, SimpleEmpty, SimpleFilled, SimpleContinued, KeyContinued,
     PluralEmpty, PluralThenSimple}

\* one to n blocks with a blank line between them
RECURSIVE BlocksUpTo(_)
BlocksUpTo(n) ==
    IF n = 1 THEN EntryBlocks
    ELSE LET fewer == BlocksUpTo(n - 1)
         IN  fewer \cup {f \o NL \o NL \o b : f \in fewer, b \in EntryBlocks}

\* The texts of a target file: blocks, and a newline at the end, and the
\* texts with the wider separators
\* Texts whose separators are longer than one blank line, or come first
WideTexts ==
    {SimpleEmpty \o NL \o NL \o NL \o SimpleFilled \o NL,
     NL \o NL \o Header \o NL \o NL \o NL \o NL \o SimpleEmpty \o NL \o NL}

FileTexts == {f \o NL : f \in BlocksUpTo(MaxBlocks)} \cup WideTexts

\* The .po files of the directory: none, one or two
Directories ==
    {<<f>> : f \in FileTexts}
    \cup {<<SimpleEmpty \o NL, g \o NL>> :
             g \in {SimpleEmpty, SimpleFilled, PluralEmpty}}
    \cup {<<SimpleFilled \o NL, SimpleEmpty \o NL>>, <<>>}

\* The texts of default.po.bak
BackupTexts ==
    {Header \o NL,
     "msgid \"a\"" \o NL \o "msgstr \"T\"" \o NL,
     Header \o NL \o NL \o "msgid \"a\"" \o NL \o "msgstr \"\"" \o NL,
     "msgid \"a\"" \o NL \o "msgstr \"T\"" \o NL \o NL
        \o "msgid \"a\"" \o NL \o "msgid_plural \"p\"" \o NL
        \o "msgstr[0] \"x\\n\\ny\"" \o NL \o "msgstr[1] \"z\"" \o NL,
     "msgid \"a\"" \o NL \o "msgstr \"\"" \o NL \o "\"q\\\"\\\\s\\n\"" \o NL}

BackfillInit ==
    /\ dPresent \in BOOLEAN
    /\ dBackup \in (IF dPresent THEN BackupTexts ELSE {""})
    /\ bDry \in BOOLEAN
    /\ dFiles \in Directories
    /\ bOrig = dFiles /\ bPrev = dFiles
    /\ bpc = "ready" /\ bTable = EmptyTable /\ bFile = 1
    /\ FillIdle
    /\ bCounts = <<>> /\ bReads = {} /\ bWrites = 0 /\ bExit = 0 /\ bRuns = 0
    /\ CodecIdle /\ RewriterIdle /\ VerifierIdle

\* (a variant of MainStart that reports the missing backup and goes on)
MainStart_NoExit ==
    /\ bpc = "ready" /\ bRuns < MaxPasses
    /\ bTable' = (IF dPresent THEN parse_po(dBackup) ELSE EmptyTable)
    /\ bFile' = 1
    /\ bCounts' = <<>>
    /\ bReads' = {}
    /\ bPrev' = dFiles
    /\ bpc' = "files"
    /\ UNCHANGED <<bExit, bRuns>>
    /\ UNCHANGED <<dPresent, dBackup, bDry, dFiles, bOrig, fillVars, bWrites>>
    /\ UNCHANGED <<codecVars, rewriterVars, verifierVars>>

\* main, up to the for loop: without the backup it exits with status 1
MainStart ==
    /\ bpc = "ready" /\ bRuns < MaxPasses
    /\ IF ~dPresent
       THEN /\ bExit' = 1
            /\ bRuns' = bRuns + 1
            /\ UNCHANGED <<bpc, bTable, bFile, bCounts, bReads, bPrev>>
       ELSE /\ bTable' = parse_po(dBackup)
            /\ bFile' = 1
            /\ bCounts' = <<>>
            /\ bReads' = {}
            /\ bPrev' = dFiles
            /\ bpc' = "files"
            /\ UNCHANGED <<bExit, bRuns>>
    /\ UNCHANGED <<dPresent, dBackup, bDry, dFiles, bOrig, fillVars, bWrites>>
    /\ UNCHANGED <<codecVars, rewriterVars, verifierVars>>

\* fill_po_file, up to the while loop: read the file and split it
FillOpen ==
    /\ bpc = "files" /\ bFile <= Len(dFiles)
    /\ bReads' = bReads \cup {bFile}
    /\ bBlocks' = SplitKeep(dFiles[bFile])
    /\ bI' = 1
    /\ bFilled' = 0 /\ bTotal' = 0
    /\ bParts' = <<>>
    /\ bpc' = "blocks"
    /\ UNCHANGED <<dPresent, dBackup, bDry, dFiles, bOrig, bPrev, bTable, bFile,
                   bPart, bResult, bCounts, bWrites, bExit, bRuns>>
    /\ UNCHANGED <<codecVars, rewriterVars, verifierVars>>

\* one turn of the while loop of fill_po_file
FillStep ==
    /\ bpc = "blocks" /\ bI <= Len(bBlocks)
    /\ \E r \in {_fill_block(bBlocks[bI], bTable)} :
           /\ bPart' = bBlocks[bI]
           /\ bResult' = r
           /\ bFilled' = bFilled + r.filled
           /\ bTotal' = bTotal + r.total
           /\ bParts' = bParts \o <<r.new_block,
                                    IF bI + 1 <= Len(bBlocks)
                                    THEN bBlocks[bI + 1] ELSE "">>
    /\ bI' = bI + 2
    /\ UNCHANGED <<dPresent, dBackup, bDry, dFiles, bOrig, bPrev, bpc, bTable,
                   bFile, bBlocks, bCounts, bReads, bWrites, bExit, bRuns>>
    /\ UNCHANGED <<codecVars, rewriterVars, verifierVars>>

\* fill_po_file after the loop: write what changed, unless in a dry run
FillClose ==
    /\ bpc = "blocks" /\ bI > Len(bBlocks)
    /\ \E new_content \in {Join(bParts)} :
           IF ~bDry /\ new_content # dFiles[bFile]
           THEN /\ dFiles' = [dFiles EXCEPT ![bFile] = new_content]
                /\ bWrites' = bWrites + 1
           ELSE UNCHANGED <<dFiles, bWrites>>
    /\ bCounts' = Append(bCounts, <<bFilled, bTotal>>)
    /\ bFile' = bFile + 1
    /\ bpc' = "files"
    /\ UNCHANGED <<dPresent, dBackup, bDry, bOrig, bPrev, bTable, fillVars,
                   bReads, bExit, bRuns>>
    /\ UNCHANGED <<codecVars, rewriterVars, verifierVars>>

\* main after the for loop
MainEnd ==
    /\ bpc = "files" /\ bFile > Len(dFiles)
    /\ bExit' = 0
    /\ bRuns' = bRuns + 1
    /\ bpc' = "ready"
    /\ UNCHANGED <<dPresent, dBackup, bDry, dFiles, bOrig, bPrev, bTable, bFile,
                   fillVars, bCounts, bReads, bWrites>>
    /\ UNCHANGED <<codecVars, rewriterVars, verifierVars>>

BackfillNext == MainStart \/ FillOpen \/ FillStep \/ FillClose \/ MainEnd

SpecBackfill == BackfillInit /\ [][BackfillNext]_vars

(* Claims about fill and the backfill *)

\* What the codec's parse reads in a block: its key, with the continuation
\* lines of msgid and msgid_plural, and its current value, with those of
\* msgstr or msgstr[0]
HasKey(entry) == entry.msgid # <<>> /\ entry.msgid # <<"">>
IsHeader(entry) == entry.msgid = <<"">>
KeyOf(entry) ==
    IF entry.msgid = <<>> THEN <<>>
    ELSE IF entry.msgid_plural # <<>> THEN entry.msgid \o entry.msgid_plural
    ELSE entry.msgid
ValueOf(entry) ==
    IF entry.msgid_plural # <<>>
    THEN (IF entry.msgstr0 = <<>> THEN "" ELSE entry.msgstr0[1])
    ELSE (IF entry.msgstr = <<>> THEN "" ELSE entry.msgstr[1])

\* a turn of the while loop has just run _fill_block on bPart
AfterFillStep == bpc = "blocks" /\ bI > 1

\* the positions of the blocks that the while loop has been through
PositionsDone == {j \in 1..Len(bBlocks) : j % 2 = 1 /\ j < bI}

\* C1: a block whose current value is not empty, or for whose key the table
\* has no value or an empty one, comes back from _fill_block as it is, with
\* filled = 0.
C1_NeverOverwrites ==
    AfterFillStep =>
        LET entry == ParseBlock(bPart)
        IN  (ValueOf(entry) # "" \/ Get(bTable, KeyOf(entry)) = "") =>
                (bResult.new_block = bPart /\ bResult.filled = 0)

\* C6: a second fill of a file against the same table fills nothing and
\* leaves the text as the first fill wrote it.
C6_FillIdempotent ==
    (bpc = "ready" /\ dPresent /\ ~bDry /\ bRuns >= 2) =>
        /\ \A f \in 1..Len(bCounts) : bCounts[f][1] = 0
        /\ dFiles = bPrev

\* C9: a header block passes unchanged and counts nothing, every other block
\* with a key counts 1 in total whether or not it is filled, so total is the
\* number of blocks whose key is not empty, and filled <= total.
C9_TotalCountsKeys ==
    AfterFillStep =>
        LET entry == ParseBlock(bPart)
        IN  /\ IsHeader(entry) =>
                   bResult = [new_block |-> bPart, filled |-> 0, total |-> 0]
            /\ bResult.total = (IF HasKey(entry) THEN 1 ELSE 0)
            /\ bTotal = Cardinality({j \in PositionsDone :
                                        HasKey(ParseBlock(bBlocks[j]))})
            /\ bFilled <= bTotal

\* C10: without the backup file a run ends with a non-zero exit status, and
\* no target file is read for filling, written or changed.
C10_NoBackupNoTouch ==
    ~dPresent =>
        /\ bpc = "ready"
        /\ bRuns > 0 => bExit # 0
        /\ bReads = {}
        /\ bWrites = 0
        /\ dFiles = bOrig

C10_Witness ==
    /\ ~dPresent /\ bRuns = 2 /\ bExit = 1
    /\ ~bDry
    /\ dFiles = <<SimpleEmpty \o NL, PluralEmpty \o NL>>

\* C11: what fill does not fill it keeps byte for byte: the separators, and
\* every header block, block with a non-empty value and block for whose key
\* the table has no non-empty value; and when filled is 0 at the end, the
\* joined text is the text read and the file is not written.
C11_FillPreserves ==
    [][
        /\ (bpc = "blocks" /\ bI <= Len(bBlocks)) =>
              LET part == bBlocks[bI]
                  sep == IF bI + 1 <= Len(bBlocks) THEN bBlocks[bI + 1] ELSE ""
                  entry == ParseBlock(part)
              IN  /\ Len(bParts') = Len(bParts) + 2
                  /\ bParts'[Len(bParts')] = sep
                  /\ (\/ IsHeader(entry)
                      \/ ValueOf(entry) # ""
                      \/ Get(bTable, KeyOf(entry)) = "")
                         => (bParts'[Len(bParts') - 1] = part)
                  /\ (bResult'.filled = 0) => (bResult'.new_block = part)
        /\ (bpc = "blocks" /\ bI > Len(bBlocks) /\ bFilled = 0) =>
              /\ Join(bParts) = dFiles[bFile]
              /\ dFiles' = dFiles
              /\ bWrites' = bWrites
    ]_vars

----------------------------------------------------------------------------
(* Verifier: main of verify_translations.py on the directory *)

VerifierInit ==
    /\ dPresent \in BOOLEAN
    /\ dBackup \in (IF dPresent THEN BackupTexts ELSE {""})
    /\ dFiles \in Directories
    /\ vpc = "ready" /\ backup = EmptyTable /\ vFile = 1
    /\ all_translated = EmptyTable /\ all_present = {}
    /\ per_file_stats = <<>>
    /\ missing_from_any = {} /\ lost_translations = {} /\ vExit = 0
    /\ CodecIdle /\ RewriterIdle /\ BackfillIdle

\* main, up to the for loop: without the backup it exits with status 1
VerifyStart ==
    /\ vpc = "ready"
    /\ IF ~dPresent
       THEN /\ vExit' = 1
            /\ vpc' = "done"
            /\ UNCHANGED backup
       ELSE /\ backup' = parse_po_entries(dBackup)
            /\ vpc' = "files"
            /\ UNCHANGED vExit
    /\ vFile' = 1
    /\ all_translated' = EmptyTable
    /\ all_present' = {}
    /\ per_file_stats' = <<>>
    /\ UNCHANGED <<missing_from_any, lost_translations>>
    /\ UNCHANGED <<codecVars, rewriterVars, directoryVars, backfillVars>>

\* for key, val in entries.items(): the keys join all_present, and a value
\* that is not empty joins all_translated unless the key has one there
Aggregate(translated, entries) ==
    [k \in DOMAIN translated \cup {e \in DOMAIN entries : entries[e] # ""} |->
        IF k \in DOMAIN translated THEN translated[k] ELSE entries[k]]

\* one turn of the for loop over po_files
VerifyFile ==
    /\ vpc = "files" /\ vFile <= Len(dFiles)
    /\ \E entries \in {parse_po_entries(dFiles[vFile])} :
           /\ per_file_stats' =
                  Append(per_file_stats,
                         <<Cardinality(DOMAIN entries),
                           Cardinality({k \in DOMAIN entries : entries[k] # ""})>>)
           /\ all_present' = all_present \cup DOMAIN entries
           /\ all_translated' = Aggregate(all_translated, entries)
    /\ vFile' = vFile + 1
    /\ UNCHANGED <<vpc, backup, missing_from_any, lost_translations, vExit>>
    /\ UNCHANGED <<codecVars, rewriterVars, directoryVars, backfillVars>>

\* (a variant of VerifyEnd whose exit status looks at missing_from_any only)
VerifyEnd_MissingOnly ==
    /\ vpc = "files" /\ vFile > Len(dFiles)
    /\ \E missing \in {{k \in DOMAIN backup : k \notin all_present}} :
           /\ missing_from_any' = missing
           /\ lost_translations' =
                  {k \in DOMAIN backup :
                      backup[k] # "" /\ Get(all_translated, k) = ""}
           /\ vExit' = (IF missing # {} THEN 1 ELSE 0)
    /\ vpc' = "done"
    /\ UNCHANGED <<backup, vFile, all_translated, all_present, per_file_stats>>
    /\ UNCHANGED <<codecVars, rewriterVars, directoryVars, backfillVars>>

\* main after the for loop: the two checks and the exit status
VerifyEnd ==
    /\ vpc = "files" /\ vFile > Len(dFiles)
    /\ \E missing \in {{k \in DOMAIN backup : k \notin all_present}} :
       \E lost \in {{k \in {t \in DOMAIN backup : backup[t] # ""} :
                        Get(all_translated, k) = ""}} :
           /\ missing_from_any' = missing
           /\ lost_translations' = lost
           /\ vExit' = (IF missing # {} \/ lost # {} THEN 1 ELSE 0)
    /\ vpc' = "done"
    /\ UNCHANGED <<backup, vFile, all_translated, all_present, per_file_stats>>
    /\ UNCHANGED <<codecVars, rewriterVars, directoryVars, backfillVars>>

VerifierNext == VerifyStart \/ VerifyFile \/ VerifyEnd

SpecVerifier == VerifierInit /\ [][VerifierNext]_vars

(* Claims about the verifier *)

\* the tables of the backup and of the current files, read off the directory
BackupEntries == parse_po_entries(dBackup)
CurrentEntries == [f \in 1..Len(dFiles) |-> parse_po_entries(dFiles[f])]
MissingSet ==
    {k \in DOMAIN BackupEntries :
        \A f \in 1..Len(dFiles) : k \notin DOMAIN CurrentEntries[f]}
LostSet ==
    {k \in DOMAIN BackupEntries :
        /\ BackupEntries[k] # ""
        /\ \A f \in 1..Len(dFiles) : Get(CurrentEntries[f], k) = ""}

\* C5: a run that finds the backup ends with a non-zero exit status exactly
\* when a backup key is in no current file (missing) or a backup key with a
\* value has no value in any current file (lost); a key that the current
\* files hold with an empty value only is lost and not missing.
C5_ExitCondition ==
    (vpc = "done" /\ dPresent) =>
        LET missing == MissingSet
            lost == LostSet
        IN  /\ vExit # 0 <=> (missing # {} \/ lost # {})
            /\ vExit \in {0, 1}
            /\ missing_from_any = missing
            /\ lost_translations = lost
            /\ \A k \in DOMAIN BackupEntries :
                   (/\ BackupEntries[k] # ""
                    /\ \E f \in 1..Len(dFiles) : k \in DOMAIN CurrentEntries[f]
                    /\ \A f \in 1..Len(dFiles) : Get(CurrentEntries[f], k) = "")
                   => (k \in lost_translations /\ k \notin missing_from_any)

\* the backup holds a -> "T", the only current file holds a with an empty
\* value: a is lost, nothing is missing, and the exit status is 1
C5_Witness ==
    /\ vpc = "done" /\ dPresent
    /\ dBackup = "msgid \"a\"" \o NL \o "msgstr \"T\"" \o NL
    /\ dFiles = <<SimpleEmpty \o NL>>
    /\ lost_translations = {<<"a">>}
    /\ missing_from_any = {}
    /\ vExit = 1

----------------------------------------------------------------------------
(* Backfill, then the verifier, on the same directory: the scripts are run  *)
(* one after the other, the verifier once a backfill run has ended.         *)

PipelineInit ==
    /\ dPresent \in BOOLEAN
    /\ dBackup \in (IF dPresent THEN BackupTexts ELSE {""})
    /\ bDry \in BOOLEAN
    /\ dFiles \in Directories
    /\ bOrig = dFiles /\ bPrev = dFiles
    /\ bpc = "ready" /\ bTable = EmptyTable /\ bFile = 1
    /\ FillIdle
    /\ bCounts = <<>> /\ bReads = {} /\ bWrites = 0 /\ bExit = 0 /\ bRuns = 0
    /\ vpc = "ready" /\ backup = EmptyTable /\ vFile = 1
    /\ all_translated = EmptyTable /\ all_present = {}
    /\ per_file_stats = <<>>
    /\ missing_from_any = {} /\ lost_translations = {} /\ vExit = 0
    /\ CodecIdle /\ RewriterIdle

PipelineNext ==
    \/ vpc = "ready" /\ BackfillNext
    \/ bpc = "ready" /\ bRuns >= 1 /\ VerifierNext

SpecPipeline == PipelineInit /\ [][PipelineNext]_vars

(* Claims about fill followed by parse *)

\* C12: when the block's entry has an empty value and the table maps its key
\* to a translation t that is not empty, parse of the block that fill
\* returns maps the key to t; hence, when every backup key is in some current
\* file, the verifier that runs after a backfill finds no lost translation.
C12_FillThenParse ==
    /\ AfterFillStep =>
           LET before == parse_po(bPart)
               after == parse_po(bResult.new_block)
           IN  \A key \in DOMAIN before :
                   (before[key] = "" /\ Get(bTable, key) # "")
                       => Get(after, key) = bTable[key]
    /\ (vpc = "done" /\ dPresent /\ ~bDry /\ bExit = 0
            /\ \A k \in DOMAIN backup :
                   \E f \in 1..Len(bOrig) : k \in DOMAIN parse_po_entries(bOrig[f]))
           => lost_translations = {}

====
